---- MODULE Spec2Model ----
(***************************************************************************)
(* Authorization core of hyperspot: the PEP constraint compiler            *)
(* (authz_resolver-sdk/src/pep/compiler.rs), the AccessScope value type    *)
(* (modkit-security/src/access_scope.rs), the scope-to-condition           *)
(* translator (modkit-db/src/secure/cond.rs), the policy enforcer          *)
(* (authz_resolver-sdk/src/pep/enforcer.rs) and the static allow-all PDP   *)
(* (static_authz_plugin/src/domain/service.rs).                            *)
(***************************************************************************)
EXTENDS Integers, Sequences, FiniteSets, TLC

(***************************************************************************)
(* Bounds of the model.                                                    *)
(***************************************************************************)
MaxUuid == 2
MaxConstraints == 2
MaxPreds == 2
MaxVals == 1

(***************************************************************************)
(* Uuids.  Uuid::default() is the nil Uuid; Option<Uuid>::None is NoUuid.  *)
(***************************************************************************)
NilUuid == 0
NoUuid == -1
Uuids == 1..MaxUuid

\* Sequences over S of length 0..n
RECURSIVE SeqsUpTo(_, _)
SeqsUpTo(S, n) ==
    IF n = 0 THEN {<<>>}
    ELSE LET shorter == SeqsUpTo(S, n - 1)
         IN  shorter \cup {Append(s, x) : s \in {t \in shorter : Len(t) = n - 1}, x \in S}

(***************************************************************************)
(* Well-known property names (access_scope.rs, mod properties) and the     *)
(* two the compiler knows (compiler.rs:23-24).                             *)
(***************************************************************************)
OWNER_TENANT_ID == "owner_tenant_id"
RESOURCE_ID == "id"
OWNER_ID == "owner_id"
PROPERTY_OWNER_TENANT_ID == "owner_tenant_id"
PROPERTY_ID == "id"
\* a property no build knows (the tests' "group_id")
GROUP_ID == "group_id"

Properties == {OWNER_TENANT_ID, RESOURCE_ID, GROUP_ID}

(***************************************************************************)
(* AccessScope (access_scope.rs)                                           *)
(***************************************************************************)
ScopeFilter_new(property, op, values) ==
    [property |-> property, op |-> op, values |-> values]

ScopeConstraint_new(filters) == [filters |-> filters]

ScopeConstraint_is_empty(c) == c.filters = <<>>

from_constraints(constraints) ==
    [constraints |-> constraints, unconstrained |-> FALSE]

single(constraint) == from_constraints(<<constraint>>)

allow_all == [constraints |-> <<>>, unconstrained |-> TRUE]

deny_all == [constraints |-> <<>>, unconstrained |-> FALSE]

AccessScope_default == deny_all

for_tenants(ids) ==
    single(ScopeConstraint_new(<<ScopeFilter_new(OWNER_TENANT_ID, "In", ids)>>))

for_tenant(id) == for_tenants(<<id>>)

for_resources(ids) ==
    single(ScopeConstraint_new(<<ScopeFilter_new(RESOURCE_ID, "In", ids)>>))

for_resource(id) == for_resources(<<id>>)

for_tenants_and_resources(tenant_ids, resource_ids) ==
    LET f1 == IF tenant_ids # <<>>
              THEN <<ScopeFilter_new(OWNER_TENANT_ID, "In", tenant_ids)>>
              ELSE <<>>
        f2 == IF resource_ids # <<>>
              THEN <<ScopeFilter_new(RESOURCE_ID, "In", resource_ids)>>
              ELSE <<>>
        filters == f1 \o f2
    IN  IF filters = <<>> THEN deny_all
        ELSE single(ScopeConstraint_new(filters))

\* compiler.rs:113 calls this constructor under the name AccessScope::both
both(tenant_ids, resource_ids) == for_tenants_and_resources(tenant_ids, resource_ids)

is_unconstrained(scope) == scope.unconstrained

\* Variant of is_deny_all that looks at the constraints only.
is_deny_all_ignoring_unconstrained(scope) == scope.constraints = <<>>

is_deny_all(scope) == ~scope.unconstrained /\ scope.constraints = <<>>

\* access_scope.rs:261-272: the inner loop over the filters of one constraint
RECURSIVE all_values_for_filters(_, _, _)
all_values_for_filters(filters, property, i) ==
    IF i > Len(filters) THEN <<>>
    ELSE (IF filters[i].property = property /\ filters[i].op = "In"
          THEN filters[i].values ELSE <<>>)
         \o all_values_for_filters(filters, property, i + 1)

\* access_scope.rs:261-272: the outer loop over the constraints
RECURSIVE all_values_for_loop(_, _, _)
all_values_for_loop(constraints, property, i) ==
    IF i > Len(constraints) THEN <<>>
    ELSE all_values_for_filters(constraints[i].filters, property, 1)
         \o all_values_for_loop(constraints, property, i + 1)

all_values_for(scope, property) == all_values_for_loop(scope.constraints, property, 1)

(***************************************************************************)
(* PDP predicates and constraints (crate::constraints, as used by          *)
(* compiler.rs and service.rs)                                             *)
(***************************************************************************)
EqPredicate(property, value) == [kind |-> "Eq", property |-> property, value |-> value]
InPredicate(property, values) == [kind |-> "In", property |-> property, values |-> values]

Predicates ==
    {EqPredicate(p, v) : p \in Properties, v \in Uuids}
    \cup {InPredicate(p, vs) : p \in Properties, vs \in SeqsUpTo(Uuids, MaxVals)}

Constraints == {[predicates |-> ps] : ps \in SeqsUpTo(Predicates, MaxPreds)}

EvaluationResponses ==
    {[decision |-> d, constraints |-> cs] :
        d \in BOOLEAN, cs \in SeqsUpTo(Constraints, MaxConstraints)}

(***************************************************************************)
(* Constraint compiler (compiler.rs)                                       *)
(***************************************************************************)
\* compile_constraint: the loop over constraint.predicates, from index i on,
\* with the accumulators of lines 128-130.
RECURSIVE compile_constraint_loop(_, _, _, _, _)
compile_constraint_loop(predicates, i, tenant_ids, resource_ids, has_unknown) ==
    IF i > Len(predicates)
    THEN IF has_unknown
         THEN [tag |-> "Err"]
         ELSE [tag |-> "Ok", tenant_ids |-> tenant_ids, resource_ids |-> resource_ids]
    ELSE LET predicate == predicates[i]
             vals == IF predicate.kind = "Eq" THEN <<predicate.value>>
                     ELSE predicate.values
         IN  IF predicate.property = PROPERTY_OWNER_TENANT_ID
             THEN compile_constraint_loop(predicates, i + 1, tenant_ids \o vals,
                                          resource_ids, has_unknown)
             ELSE IF predicate.property = PROPERTY_ID
             THEN compile_constraint_loop(predicates, i + 1, tenant_ids,
                                          resource_ids \o vals, has_unknown)
             ELSE compile_constraint_loop(predicates, i + 1, tenant_ids,
                                          resource_ids, TRUE)

compile_constraint(constraint) ==
    compile_constraint_loop(constraint.predicates, 1, <<>>, <<>>, FALSE)

\* Step 4 of compile_to_access_scope: the loop of lines 87-98 from index i on.
RECURSIVE compile_merge_loop(_, _, _, _, _, _)
compile_merge_loop(constraints, i, tenant_ids, resource_ids, any_compiled, fail_reasons) ==
    IF i > Len(constraints)
    THEN [tenant_ids |-> tenant_ids, resource_ids |-> resource_ids,
          any_compiled |-> any_compiled, fail_reasons |-> fail_reasons]
    ELSE LET compiled == compile_constraint(constraints[i])
         IN  IF compiled.tag = "Ok"
             THEN compile_merge_loop(constraints, i + 1,
                                     tenant_ids \o compiled.tenant_ids,
                                     resource_ids \o compiled.resource_ids,
                                     TRUE, fail_reasons)
             ELSE compile_merge_loop(constraints, i + 1, tenant_ids, resource_ids,
                                     any_compiled, fail_reasons + 1)

Denied == [tag |-> "Denied"]
AllConstraintsFailed(reason) == [tag |-> "AllConstraintsFailed", reason |-> reason]
Ok(scope) == [tag |-> "Ok", scope |-> scope]

\* Step 4 (compiler.rs:81-113): merge the ids of the constraints that compile.
compile_constraints(constraints) ==
    LET m == compile_merge_loop(constraints, 1, <<>>, <<>>, FALSE, 0)
    IN  IF ~m.any_compiled THEN AllConstraintsFailed(m.fail_reasons)
        ELSE IF m.tenant_ids = <<>> /\ m.resource_ids = <<>> THEN Ok(allow_all)
        ELSE Ok(both(m.tenant_ids, m.resource_ids))

\* Variants of compile_to_access_scope with one slip each.
\* - the require_constraints test placed before the decision test
compile_require_before_decision(response, require_constraints, supported_properties) ==
    IF ~require_constraints THEN Ok(allow_all)
    ELSE IF ~response.decision THEN Denied
    ELSE IF response.constraints = <<>> THEN Ok(allow_all)
    ELSE compile_constraints(response.constraints)

\* - step 2 left out: constraints compiled although not required
compile_without_step2(response, require_constraints, supported_properties) ==
    IF ~response.decision THEN Denied
    ELSE IF response.constraints = <<>> THEN Ok(allow_all)
    ELSE compile_constraints(response.constraints)

\* - step 3 left out: an empty list falls through to the any_compiled test
compile_without_step3(response, require_constraints, supported_properties) ==
    IF ~response.decision THEN Denied
    ELSE IF ~require_constraints THEN Ok(allow_all)
    ELSE compile_constraints(response.constraints)

\* - constraints on a property outside supported_properties failed first,
\*   the rest merged as in step 4
ConstraintSupported(constraint, supported_properties) ==
    \A k \in 1..Len(constraint.predicates) :
        constraint.predicates[k].property \in supported_properties

compile_supported_then_merge(response, require_constraints, supported_properties) ==
    IF ~response.decision THEN Denied
    ELSE IF ~require_constraints THEN Ok(allow_all)
    ELSE IF response.constraints = <<>> THEN Ok(allow_all)
    ELSE LET kept == SelectSeq(response.constraints,
                               LAMBDA c : ConstraintSupported(c, supported_properties))
         IN  IF kept = <<>> THEN AllConstraintsFailed(Len(response.constraints))
             ELSE compile_constraints(kept)

\* compiler.rs:62-114.  supported_properties is what the enforcer passes as
\* third argument (enforcer.rs:332-336); the function of compiler.rs:62-65 has
\* no such parameter and decides support by PROPERTY_OWNER_TENANT_ID /
\* PROPERTY_ID alone.  fail_reasons is kept as the number of (identical)
\* messages joined.
compile_to_access_scope(response, require_constraints, supported_properties) ==
    IF ~response.decision THEN Denied
    ELSE IF ~require_constraints THEN Ok(allow_all)
    ELSE IF response.constraints = <<>> THEN Ok(allow_all)
    ELSE compile_constraints(response.constraints)

(***************************************************************************)
(* Scope -> storage condition (cond.rs).  A Condition is a tree:           *)
(* Condition::all()/any() with children, Expr::value(b), Expr::col(c)      *)
(* .is_in(values).  An entity is its resolve_property map: property name   *)
(* -> column, NoColumn for None.                                           *)
(***************************************************************************)
NoColumn == "none"

Condition_all(conds) == [kind |-> "all", conds |-> conds]
Condition_any(conds) == [kind |-> "any", conds |-> conds]
Expr_value(b) == [kind |-> "value", value |-> b]
Expr_is_in(col, values) == [kind |-> "is_in", col |-> col, values |-> values]

\* cond.rs:7-9
cond_deny_all == Condition_all(<<Expr_value(FALSE)>>)

resolve_property(E, property) ==
    IF property \in DOMAIN E THEN E[property] ELSE NoColumn

\* Variant of the filter loop that ORs the filters of a constraint.
build_constraint_loop_any(E, filters, i, and_cond) ==
    IF \E k \in i..Len(filters) : resolve_property(E, filters[k].property) = NoColumn
    THEN [some |-> FALSE]
    ELSE [some |-> TRUE,
          cond |-> Condition_any(and_cond.conds \o
                       [k \in 1..(Len(filters) - i + 1) |->
                           Expr_is_in(resolve_property(E, filters[k + i - 1].property),
                                      filters[k + i - 1].values)])]

\* cond.rs:62-80: None is [some |-> FALSE]
RECURSIVE build_constraint_loop(_, _, _, _)
build_constraint_loop(E, filters, i, and_cond) ==
    IF i > Len(filters) THEN [some |-> TRUE, cond |-> and_cond]
    ELSE LET filter == filters[i]
             col == resolve_property(E, filter.property)
         IN  IF col = NoColumn THEN [some |-> FALSE]
             ELSE build_constraint_loop(E, filters, i + 1,
                      Condition_all(Append(and_cond.conds,
                                           Expr_is_in(col, filter.values))))

\* Variant of build_constraint_condition that skips a filter whose property
\* does not resolve instead of giving up the constraint.
build_constraint_condition_skip_unresolved(E, constraint) ==
    LET kept == SelectSeq(constraint.filters,
                          LAMBDA f : resolve_property(E, f.property) # NoColumn)
    IN  [some |-> TRUE,
         cond |-> Condition_all([k \in 1..Len(kept) |->
                     Expr_is_in(resolve_property(E, kept[k].property), kept[k].values)])]

\* Variant of build_constraint_condition that gives up a constraint without
\* filters.
build_constraint_condition_empty_is_none(E, constraint) ==
    IF ScopeConstraint_is_empty(constraint)
    THEN [some |-> FALSE]
    ELSE build_constraint_loop(E, constraint.filters, 1, Condition_all(<<>>))

build_constraint_condition(E, constraint) ==
    IF ScopeConstraint_is_empty(constraint)
    THEN [some |-> TRUE, cond |-> Condition_all(<<>>)]
    ELSE build_constraint_loop(E, constraint.filters, 1, Condition_all(<<>>))

\* filter_map(build_constraint_condition).collect() of cond.rs:40-44
RECURSIVE filter_map_constraints(_, _, _)
filter_map_constraints(E, constraints, i) ==
    IF i > Len(constraints) THEN <<>>
    ELSE LET c == build_constraint_condition(E, constraints[i])
             rest == filter_map_constraints(E, constraints, i + 1)
         IN  IF c.some THEN <<c.cond>> \o rest ELSE rest

\* Variant of build_scope_condition without the is_unconstrained() return.
build_scope_condition_without_unconstrained(scope, E) ==
    IF is_deny_all(scope) THEN cond_deny_all
    ELSE LET compiled == filter_map_constraints(E, scope.constraints, 1)
         IN  IF Len(compiled) = 0 THEN cond_deny_all
             ELSE IF Len(compiled) = 1 THEN compiled[1]
             ELSE Condition_any(compiled)

\* cond.rs:28-57
build_scope_condition(scope, E) ==
    IF is_unconstrained(scope) THEN Condition_all(<<>>)
    ELSE IF is_deny_all(scope) THEN cond_deny_all
    ELSE LET compiled == filter_map_constraints(E, scope.constraints, 1)
         IN  IF Len(compiled) = 0 THEN cond_deny_all
             ELSE IF Len(compiled) = 1 THEN compiled[1]
             ELSE Condition_any(compiled)

(***************************************************************************)
(* Rows and the meaning of a condition on a row (what the database does    *)
(* with the WHERE clause): a condition without children filters nothing,   *)
(* and sea-query renders an IN over no values as the false literal 1 = 2.  *)
(***************************************************************************)
Columns == {"tenant_id", "id", "group_id"}
Rows == [Columns -> Uuids]

RECURSIVE EvalCondition(_, _)
EvalCondition(cond, row) ==
    CASE cond.kind = "value" -> cond.value
      [] cond.kind = "is_in" ->
            \E k \in 1..Len(cond.values) : row[cond.col] = cond.values[k]
      [] cond.kind = "all" ->
            \A k \in 1..Len(cond.conds) : EvalCondition(cond.conds[k], row)
      [] cond.kind = "any" ->
            \/ cond.conds = <<>>
            \/ \E k \in 1..Len(cond.conds) : EvalCondition(cond.conds[k], row)

\* The entity of the rows: every property of the rows has its column.
UsersEntity ==
    (OWNER_TENANT_ID :> "tenant_id") @@ (RESOURCE_ID :> "id")

\* The value a row has for a property the PDP speaks of.
RowProperty(row, property) ==
    CASE property = OWNER_TENANT_ID -> row["tenant_id"]
      [] property = RESOURCE_ID -> row["id"]
      [] property = GROUP_ID -> row["group_id"]

\* A row satisfies a PDP predicate / constraint (AND of predicates).
RowSatisfiesPredicate(row, predicate) ==
    IF predicate.kind = "Eq"
    THEN RowProperty(row, predicate.property) = predicate.value
    ELSE \E k \in 1..Len(predicate.values) :
            RowProperty(row, predicate.property) = predicate.values[k]

RowSatisfiesConstraint(row, constraint) ==
    \A k \in 1..Len(constraint.predicates) :
        RowSatisfiesPredicate(row, constraint.predicates[k])

\* A row is admitted by an AccessScope (access_scope.rs:102-105): allow-all,
\* or some constraint all of whose filters hold the row's value.
ScopeAdmits(scope, row) ==
    \/ scope.unconstrained
    \/ \E c \in 1..Len(scope.constraints) :
          \A f \in 1..Len(scope.constraints[c].filters) :
              LET filter == scope.constraints[c].filters[f]
              IN  \E k \in 1..Len(filter.values) :
                      RowProperty(row, filter.property) = filter.values[k]

\* The rows a compile result admits: an Err admits none.
ResultAdmits(res, row) == res.tag = "Ok" /\ ScopeAdmits(res.scope, row)

(***************************************************************************)
(* Policy enforcer (enforcer.rs)                                           *)
(***************************************************************************)
MaxCalls == 2
Calls == 1..MaxCalls

\* Uuid::to_string
UuidToString(id) == <<"uuid", id>>

NoTenantContext == [none |-> TRUE]
NoStatus == <<"none">>

\* TenantContext::default(): no root id, Subtree, Respect, no status filter
\* (AccessRequest docs, enforcer.rs:100-126; test at enforcer.rs:575-588)
TenantContext_default ==
    [root_id |-> NoUuid, mode |-> "Subtree", barrier_mode |-> "Respect",
     tenant_status |-> NoStatus]

TenantContexts ==
    [root_id : {NoUuid, NilUuid} \cup Uuids, mode : {"Subtree", "RootOnly"},
     barrier_mode : {"Respect", "Ignore"}, tenant_status : {NoStatus, <<"active">>}]

\* AccessRequest (enforcer.rs:69-134)
AccessRequest_default == [resource_properties |-> <<>>, tenant_context |-> NoTenantContext]

AccessRequests ==
    {[resource_properties |-> <<>>, tenant_context |-> tc] :
        tc \in {NoTenantContext} \cup TenantContexts}

\* ResourceType descriptors (enforcer.rs:419-422 and 725-728)
TEST_RESOURCE ==
    [name |-> "test.resource", supported_properties |-> <<OWNER_TENANT_ID, RESOURCE_ID>>]
USERS_RESOURCE ==
    [name |-> "users_info.user", supported_properties |-> <<OWNER_TENANT_ID>>]
ResourceTypes == {TEST_RESOURCE, USERS_RESOURCE}

\* SecurityContext: the subject tenant is None, nil or a tenant.
SecurityContexts ==
    {[subject_id |-> 1, subject_tenant_id |-> t, subject_type |-> "user",
      token_scopes |-> <<"admin">>, bearer_token |-> "test-token"] :
        t \in {NoUuid, NilUuid} \cup Uuids}

Range(seq) == {seq[k] : k \in 1..Len(seq)}

\* enforcer.rs:228-233: request.tenant_context.and_then(root_id)
\*     .or(ctx.subject_tenant_id()).filter(|id| id != Uuid::default())
resolve_root_id(ctx, request) ==
    LET override_root ==
            IF request.tenant_context = NoTenantContext THEN NoUuid
            ELSE request.tenant_context.root_id
        or_subject == IF override_root # NoUuid THEN override_root
                      ELSE ctx.subject_tenant_id
    IN  IF or_subject # NilUuid THEN or_subject ELSE NoUuid

\* Variant that builds the tenant context from the default modes alone.
build_tenant_context_defaults(resolved_root_id, request) ==
    IF resolved_root_id = NoUuid THEN NoTenantContext
    ELSE [TenantContext_default EXCEPT !.root_id = resolved_root_id]

\* enforcer.rs:235-241: resolved_root_id.map(|root_id| TenantContext {
\*     root_id: Some(root_id), ..request.tenant_context.unwrap_or_default() })
build_tenant_context(resolved_root_id, request) ==
    LET base == IF request.tenant_context = NoTenantContext
                THEN TenantContext_default
                ELSE request.tenant_context
    IN  IF resolved_root_id = NoUuid THEN NoTenantContext
        ELSE [base EXCEPT !.root_id = resolved_root_id]

\* enforcer.rs:243-250
subject_properties(ctx) ==
    IF ctx.subject_tenant_id # NoUuid
    THEN <<[key |-> "tenant_id", value |-> UuidToString(ctx.subject_tenant_id)]>>
    ELSE <<>>

\* Variant that hands the token scopes over in reverse order.
build_request_with_reversed_scopes(self, ctx, resource, action, resource_id, req_constraints, request) ==
    [subject |-> [id |-> ctx.subject_id, subject_type |-> ctx.subject_type,
                  properties |-> subject_properties(ctx)],
     action |-> [name |-> action],
     resource |-> [resource_type |-> resource.name, id |-> resource_id,
                   properties |-> request.resource_properties],
     context |-> [tenant_context |->
                      build_tenant_context(resolve_root_id(ctx, request), request),
                  token_scopes |->
                      [k \in 1..Len(ctx.token_scopes) |->
                          ctx.token_scopes[Len(ctx.token_scopes) + 1 - k]],
                  require_constraints |-> req_constraints,
                  capabilities |-> self.capabilities,
                  supported_properties |-> resource.supported_properties,
                  bearer_token |-> [secret |-> ctx.bearer_token],
                  properties |-> <<>>]]

\* enforcer.rs:218-282
build_request_with(self, ctx, resource, action, resource_id, req_constraints, request) ==
    [subject |-> [id |-> ctx.subject_id, subject_type |-> ctx.subject_type,
                  properties |-> subject_properties(ctx)],
     action |-> [name |-> action],
     resource |-> [resource_type |-> resource.name, id |-> resource_id,
                   properties |-> request.resource_properties],
     context |-> [tenant_context |->
                      build_tenant_context(resolve_root_id(ctx, request), request),
                  token_scopes |-> ctx.token_scopes,
                  require_constraints |-> req_constraints,
                  capabilities |-> self.capabilities,
                  supported_properties |-> resource.supported_properties,
                  bearer_token |-> [secret |-> ctx.bearer_token],
                  properties |-> <<>>]]

\* The PDP clients of the enforcer's tests.
\* Variant of the allow-all client that scopes to the subject's own tenant.
AllowAllMock_evaluate_subject_tenant(req) ==
    LET constraints ==
            IF req.subject.properties # <<>>
            THEN <<[predicates |->
                      <<InPredicate("owner_tenant_id",
                                    <<req.subject.properties[1].value[2]>>)>>]>>
            ELSE <<>>
    IN  [tag |-> "Ok", response |-> [decision |-> TRUE, constraints |-> constraints]]

\* AllowAllMock::evaluate, enforcer.rs:369-397
AllowAllMock_evaluate(req) ==
    LET constraints ==
            IF req.context.tenant_context # NoTenantContext
            THEN IF req.context.tenant_context.root_id # NoUuid
                 THEN <<[predicates |->
                           <<InPredicate("owner_tenant_id",
                                         <<req.context.tenant_context.root_id>>)>>]>>
                 ELSE <<>>
            ELSE <<>>
    IN  [tag |-> "Ok", response |-> [decision |-> TRUE, constraints |-> constraints]]

\* FailMock::evaluate, enforcer.rs:400-410
FailMock_evaluate(req) == [tag |-> "Err", error |-> "Internal"]

\* The errors a PDP client's evaluate can return (api.rs:25-29; the
\* specification names Unauthorized as well).
AuthZResolverErrors ==
    {"Unauthorized", "Denied", "NoPluginAvailable", "ServiceUnavailable", "Internal"}

\* self.authz.evaluate(request): the call is dispatched to the client the
\* enforcer holds.  A FailingClient is a client that answers with its error,
\* a RespondingClient one that answers with its response.
evaluate(self, req) ==
    IF self.authz = "AllowAllMock" THEN AllowAllMock_evaluate(req)
    ELSE IF self.authz = "FailMock" THEN FailMock_evaluate(req)
    ELSE IF self.authz = "RespondingClient"
    THEN [tag |-> "Ok", response |-> self.response]
    ELSE [tag |-> "Err", error |-> self.error]

\* Variant that compiles an empty denial when the PDP call failed.
access_scope_with_resume_compile_on_error(resource, answer) ==
    LET resp == IF answer.tag = "Err" THEN [decision |-> FALSE, constraints |-> <<>>]
                ELSE answer.response
        compiled == compile_to_access_scope(resp, TRUE,
                                            Range(resource.supported_properties))
    IN  IF compiled.tag = "Ok" THEN compiled
        ELSE [tag |-> "CompileFailed", error |-> compiled]

\* Variant that compiles with the require_constraints flag off.
access_scope_with_resume_not_required(resource, answer) ==
    IF answer.tag = "Err" THEN [tag |-> "EvaluationFailed", error |-> answer.error]
    ELSE LET compiled == compile_to_access_scope(answer.response, FALSE,
                                                 Range(resource.supported_properties))
         IN  IF compiled.tag = "Ok" THEN compiled
             ELSE [tag |-> "CompileFailed", error |-> compiled]

\* What access_scope_with returns once evaluate has answered (enforcer.rs:331-336)
access_scope_with_resume(resource, answer) ==
    IF answer.tag = "Err" THEN [tag |-> "EvaluationFailed", error |-> answer.error]
    ELSE LET compiled == compile_to_access_scope(answer.response, TRUE,
                                                 Range(resource.supported_properties))
         IN  IF compiled.tag = "Ok" THEN compiled
             ELSE [tag |-> "CompileFailed", error |-> compiled]

(***************************************************************************)
(* State                                                                   *)
(***************************************************************************)
VARIABLES
    pc,                   \* position of the compile / storage pipeline
    response,             \* the PDP's EvaluationResponse handed to the compiler
    require_constraints,  \* the compiler's flag
    supported,            \* ResourceType.supported_properties
    result,               \* Result<AccessScope, ConstraintCompileError>
    entity,               \* the entity's resolve_property map
    ctor,                 \* the AccessScope constructor that was called
    scope,                \* the AccessScope handed to the storage layer
    cond,                 \* the Condition built from scope
    enforcer,             \* the PolicyEnforcer: authz client and capabilities
    calls                 \* the access_scope_with calls on the enforcer

vars == <<pc, response, require_constraints, supported, result, entity, ctor,
          scope, cond, enforcer, calls>>

NoResult == [tag |-> "None"]
NoScope == [tag |-> "None"]
NoCondition == [kind |-> "none"]
NoResponse == [decision |-> FALSE, constraints |-> <<>>]
NoEnforcer == [authz |-> "none", capabilities |-> <<>>]
IdleCall == [pc |-> "idle"]

SupportedSets == {{OWNER_TENANT_ID}, {OWNER_TENANT_ID, RESOURCE_ID}}

(***************************************************************************)
(* Spec: a PDP response is compiled and the scope translated for storage.  *)
(***************************************************************************)
Init ==
    /\ pc = "start"
    /\ response \in EvaluationResponses
    /\ require_constraints \in BOOLEAN
    /\ supported \in SupportedSets
    /\ result = NoResult
    /\ entity = UsersEntity
    /\ ctor = "none"
    /\ scope = NoScope
    /\ cond = NoCondition
    /\ enforcer = NoEnforcer
    /\ calls = [c \in Calls |-> IdleCall]

\* The caller compiles the PDP response; on Ok the scope goes on to storage.
Compile ==
    /\ pc = "start"
    /\ result' = compile_to_access_scope(response, require_constraints, supported)
    /\ scope' = IF result'.tag = "Ok" THEN result'.scope ELSE scope
    /\ pc' = "compiled"
    /\ UNCHANGED <<response, require_constraints, supported, entity, ctor, cond,
                   enforcer, calls>>

\* The storage helper translates the scope for the entity.
BuildScopeCondition ==
    /\ pc \in {"compiled", "constructed"}
    /\ scope # NoScope
    /\ cond' = build_scope_condition(scope, entity)
    /\ pc' = "translated"
    /\ UNCHANGED <<response, require_constraints, supported, result, entity, ctor,
                   scope, enforcer, calls>>

Next == Compile \/ BuildScopeCondition

Spec == Init /\ [][Next]_vars

(***************************************************************************)
(* SpecScope: a caller constructs an AccessScope and hands it to storage.  *)
(***************************************************************************)
Entities ==
    { UsersEntity,
      (OWNER_TENANT_ID :> "tenant_id"),
      (RESOURCE_ID :> "id") }

ScopeFilters ==
    {ScopeFilter_new(p, "In", vs) : p \in Properties, vs \in SeqsUpTo(Uuids, MaxVals)}

ScopeConstraints ==
    {ScopeConstraint_new(fs) : fs \in SeqsUpTo(ScopeFilters, MaxPreds)}

IdLists == SeqsUpTo(Uuids, MaxVals + 1)

ConstructorCalls ==
    {[name |-> "default", scope |-> AccessScope_default],
     [name |-> "deny_all", scope |-> deny_all],
     [name |-> "allow_all", scope |-> allow_all]}
    \cup {[name |-> "for_tenant", scope |-> for_tenant(id)] : id \in Uuids}
    \cup {[name |-> "for_tenants", scope |-> for_tenants(ids)] : ids \in IdLists}
    \cup {[name |-> "for_resource", scope |-> for_resource(id)] : id \in Uuids}
    \cup {[name |-> "for_resources", scope |-> for_resources(ids)] : ids \in IdLists}
    \cup {[name |-> "for_tenants_and_resources",
           scope |-> for_tenants_and_resources(ts, rs)] : ts \in IdLists, rs \in IdLists}
    \cup {[name |-> "single", scope |-> single(c)] : c \in ScopeConstraints}
    \cup {[name |-> "from_constraints", scope |-> from_constraints(cs)] :
              cs \in SeqsUpTo(ScopeConstraints, MaxConstraints)}

InitScope ==
    /\ pc = "new"
    /\ response = NoResponse
    /\ require_constraints = FALSE
    /\ supported = {}
    /\ result = NoResult
    /\ entity \in Entities
    /\ ctor = "none"
    /\ scope = NoScope
    /\ cond = NoCondition
    /\ enforcer = NoEnforcer
    /\ calls = [c \in Calls |-> IdleCall]

Construct ==
    /\ pc = "new"
    /\ \E call \in ConstructorCalls :
          /\ ctor' = call.name
          /\ scope' = call.scope
    /\ pc' = "constructed"
    /\ UNCHANGED <<response, require_constraints, supported, result, entity, cond,
                   enforcer, calls>>

NextScope == Construct \/ BuildScopeCondition

SpecScope == InitScope /\ [][NextScope]_vars

(***************************************************************************)
(* SpecPep: access_scope / access_scope_with calls on one enforcer.  A     *)
(* call builds its request and awaits the PDP (the one suspension point);  *)
(* when the PDP has answered the call resumes and compiles.                *)
(***************************************************************************)
\* PolicyEnforcer::new(authz).with_capabilities(capabilities), enforcer.rs:179-191
Enforcers ==
    [authz : {"AllowAllMock", "FailMock"}, capabilities : {<<>>, <<"TenantHierarchy">>}]
    \cup [authz : {"FailingClient"}, error : AuthZResolverErrors \ {"Internal"},
          capabilities : {<<>>, <<"TenantHierarchy">>}]

\* The actions of the callers (enforcer.rs:475-530)
PepActions == {"list", "create"}

\* The per-request overrides of the callers: none, or a tenant context with
\* the default modes or with every mode overridden.
PepAccessRequests ==
    {r \in AccessRequests :
        \/ r.tenant_context = NoTenantContext
        \/ <<r.tenant_context.mode, r.tenant_context.barrier_mode,
              r.tenant_context.tenant_status>>
               \in {<<"Subtree", "Respect", NoStatus>>,
                    <<"RootOnly", "Ignore", <<"active">>>>}}

InitPep ==
    /\ pc = "pep"
    /\ response = NoResponse
    /\ require_constraints = FALSE
    /\ supported = {}
    /\ result = NoResult
    /\ entity = UsersEntity
    /\ ctor = "none"
    /\ scope = NoScope
    /\ cond = NoCondition
    /\ enforcer \in Enforcers
    /\ calls = [c \in Calls |-> IdleCall]

\* access_scope_with up to the await (enforcer.rs:329-331); access_scope is
\* the call with AccessRequest::default() (enforcer.rs:303-310).
AccessScopeWith(c) ==
    /\ calls[c].pc = "idle"
    /\ \E ctx \in SecurityContexts, resource \in ResourceTypes,
          action \in PepActions, request \in PepAccessRequests :
          calls' = [calls EXCEPT ![c] =
              [pc |-> "awaiting", ctx |-> ctx, resource |-> resource,
               action |-> action, access_request |-> request,
               evaluations |-> 1,
               eval_request |-> build_request_with(enforcer, ctx, resource, action,
                                                   NoUuid, TRUE, request)]]
    /\ UNCHANGED <<pc, response, require_constraints, supported, result, entity,
                   ctor, scope, cond, enforcer>>

\* Variant of Resume with one request slot shared by the calls in flight: the
\* PDP is answered for the request of the latest call.
Resume_shared_request(c) ==
    /\ calls[c].pc = "awaiting"
    /\ LET latest == CHOOSE d \in Calls :
                         /\ calls[d].pc = "awaiting"
                         /\ \A e \in Calls : calls[e].pc = "awaiting" => e <= d
           answer == evaluate(enforcer, calls[latest].eval_request)
       IN  calls' = [calls EXCEPT ![c] =
               [pc |-> "done", ctx |-> calls[c].ctx, resource |-> calls[c].resource,
                action |-> calls[c].action,
                access_request |-> calls[c].access_request,
                evaluations |-> calls[c].evaluations,
                eval_request |-> calls[c].eval_request,
                answer |-> answer,
                result |-> access_scope_with_resume(calls[c].resource, answer)]]
    /\ UNCHANGED <<pc, response, require_constraints, supported, result, entity,
                   ctor, scope, cond, enforcer>>

\* Variant of Resume that calls evaluate again after an error.
Resume_retry(c) ==
    /\ calls[c].pc = "awaiting"
    /\ LET answer == evaluate(enforcer, calls[c].eval_request)
       IN  calls' = [calls EXCEPT ![c] =
               IF answer.tag = "Err" /\ calls[c].evaluations < 2
               THEN [calls[c] EXCEPT !.evaluations = @ + 1]
               ELSE [pc |-> "done", ctx |-> calls[c].ctx,
                     resource |-> calls[c].resource, action |-> calls[c].action,
                     access_request |-> calls[c].access_request,
                     evaluations |-> calls[c].evaluations,
                     eval_request |-> calls[c].eval_request,
                     answer |-> answer,
                     result |-> access_scope_with_resume(calls[c].resource, answer)]]
    /\ UNCHANGED <<pc, response, require_constraints, supported, result, entity,
                   ctor, scope, cond, enforcer>>

\* The PDP answers the call's request; the call resumes (enforcer.rs:331-336).
Resume(c) ==
    /\ calls[c].pc = "awaiting"
    /\ LET answer == evaluate(enforcer, calls[c].eval_request)
       IN  calls' = [calls EXCEPT ![c] =
               [pc |-> "done", ctx |-> calls[c].ctx, resource |-> calls[c].resource,
                action |-> calls[c].action,
                access_request |-> calls[c].access_request,
                evaluations |-> calls[c].evaluations,
                eval_request |-> calls[c].eval_request,
                answer |-> answer,
                result |-> access_scope_with_resume(calls[c].resource, answer)]]
    /\ UNCHANGED <<pc, response, require_constraints, supported, result, entity,
                   ctor, scope, cond, enforcer>>

CancelledCall == [pc |-> "cancelled"]

\* Variant of Cancel in which the dropped call still compiles an answer.
Cancel_compiles(c) ==
    /\ calls[c].pc = "awaiting"
    /\ calls' = [calls EXCEPT ![c] =
          [pc |-> "cancelled",
           result |-> access_scope_with_resume(
                          calls[c].resource,
                          evaluate(enforcer, calls[c].eval_request))]]
    /\ UNCHANGED <<pc, response, require_constraints, supported, result, entity,
                   ctor, scope, cond, enforcer>>

\* The caller's task is cancelled at the await (enforcer.rs:331): the future
\* of access_scope_with is dropped with its locals, the rest of its body
\* never runs.
Cancel(c) ==
    /\ calls[c].pc = "awaiting"
    /\ calls' = [calls EXCEPT ![c] = CancelledCall]
    /\ UNCHANGED <<pc, response, require_constraints, supported, result, entity,
                   ctor, scope, cond, enforcer>>

NextPep == \E c \in Calls : AccessScopeWith(c) \/ Resume(c) \/ Cancel(c)

SpecPep == InitPep /\ [][NextPep]_vars

(***************************************************************************)
(* Debug formatting of an EvaluationRequest: the derived Debug writes the  *)
(* type name and every field in declaration order; the rendering is the    *)
(* sequence of the text fragments written.  The bearer token is a          *)
(* SecretString (enforcer.rs:252), whose Debug writes a fixed placeholder. *)
(***************************************************************************)
\* Variant that writes the secret as a plain String field would be written.
Debug_SecretString_exposed(secret) == secret.secret

Debug_SecretString(secret) == "SecretBox<str>([REDACTED])"

\* Debug of Option<Uuid>
Debug_OptionUuid(id) ==
    CASE id = NoUuid -> "None"
      [] id = NilUuid -> "Some(00000000-0000-0000-0000-000000000000)"
      [] id = 1 -> "Some(11111111-1111-1111-1111-111111111111)"
      [] id = 2 -> "Some(22222222-2222-2222-2222-222222222222)"
      [] OTHER -> "Some(33333333-3333-3333-3333-333333333333)"

Debug_bool(b) == IF b THEN "true" ELSE "false"

Debug_TenantContext(tc) ==
    IF tc = NoTenantContext THEN <<"None">>
    ELSE <<"Some(TenantContext", "root_id", Debug_OptionUuid(tc.root_id),
           "mode", tc.mode, "barrier_mode", tc.barrier_mode, "tenant_status">>
         \o tc.tenant_status

Debug_properties(props) ==
    IF props = <<>> THEN <<"{}">>
    ELSE <<props[1].key, Debug_OptionUuid(props[1].value[2])>>

Debug_EvaluationRequest(req) ==
    <<"EvaluationRequest", "subject", "Subject", "id",
      Debug_OptionUuid(req.subject.id), "subject_type", req.subject.subject_type,
      "properties">> \o Debug_properties(req.subject.properties)
    \o <<"action", "Action", "name", req.action.name,
         "resource", "Resource", "resource_type", req.resource.resource_type,
         "id", Debug_OptionUuid(req.resource.id), "properties">>
    \o Debug_properties(req.resource.properties)
    \o <<"context", "Context", "tenant_context">>
    \o Debug_TenantContext(req.context.tenant_context)
    \o <<"token_scopes">> \o req.context.token_scopes
    \o <<"require_constraints", Debug_bool(req.context.require_constraints),
         "capabilities">> \o req.context.capabilities
    \o <<"supported_properties">> \o req.context.supported_properties
    \o <<"bearer_token", Debug_SecretString(req.context.bearer_token),
         "properties", "{}">>

(***************************************************************************)
(* SpecRequest: a caller builds an evaluation request with                 *)
(* build_request_with; the inputs of the call are drawn at the start.      *)
(***************************************************************************)
TokenScopeLists == {<<>>, <<"admin">>, <<"read", "write">>, <<"write", "read">>}

BearerTokens == {"test-token", "other-token"}

RequestContexts ==
    {[subject_id |-> 1, subject_tenant_id |-> t, subject_type |-> "user",
      token_scopes |-> ts, bearer_token |-> b] :
        t \in {NoUuid, NilUuid} \cup Uuids, ts \in TokenScopeLists,
        b \in BearerTokens}

RequestActions == {"get", "list", "create"}

ResourceIds == {NoUuid} \cup Uuids

\* AccessRequest::resource_property(key, value), enforcer.rs:84-98
ResourcePropertyMaps ==
    {<<>>, <<[key |-> "owner_tenant_id", value |-> UuidToString(1)]>>}

RequestAccessRequests ==
    [resource_properties : ResourcePropertyMaps,
     tenant_context : {NoTenantContext} \cup TenantContexts]

BuildRequestCalls ==
    [pc : {"calling"}, ctx : RequestContexts, resource : ResourceTypes,
     action : RequestActions, resource_id : ResourceIds,
     require_constraints : BOOLEAN, access_request : RequestAccessRequests]

InitRequest ==
    /\ pc = "request"
    /\ response = NoResponse
    /\ require_constraints = FALSE
    /\ supported = {}
    /\ result = NoResult
    /\ entity = UsersEntity
    /\ ctor = "none"
    /\ scope = NoScope
    /\ cond = NoCondition
    /\ enforcer \in {e \in Enforcers : e.authz = "AllowAllMock"}
    /\ \E call \in BuildRequestCalls :
          calls = [c \in Calls |-> IF c = 1 THEN call ELSE IdleCall]

\* enforcer.rs:218-282: the call returns the request; its borrowed inputs
\* (&self, &ctx, &resource, &request) stay as they are.
BuildRequestWith(c) ==
    /\ calls[c].pc = "calling"
    /\ calls' = [calls EXCEPT ![c] =
          [pc |-> "built", ctx |-> calls[c].ctx, resource |-> calls[c].resource,
           action |-> calls[c].action, resource_id |-> calls[c].resource_id,
           require_constraints |-> calls[c].require_constraints,
           access_request |-> calls[c].access_request,
           eval_request |->
               build_request_with(enforcer, calls[c].ctx, calls[c].resource,
                                  calls[c].action, calls[c].resource_id,
                                  calls[c].require_constraints,
                                  calls[c].access_request)]]
    /\ UNCHANGED <<pc, response, require_constraints, supported, result, entity,
                   ctor, scope, cond, enforcer>>

\* The caller formats the request with {:?}, as a log line would.
FormatDebug(c) ==
    /\ calls[c].pc = "built"
    /\ calls' = [calls EXCEPT ![c] =
          [pc |-> "formatted", ctx |-> calls[c].ctx, resource |-> calls[c].resource,
           action |-> calls[c].action, resource_id |-> calls[c].resource_id,
           require_constraints |-> calls[c].require_constraints,
           access_request |-> calls[c].access_request,
           eval_request |-> calls[c].eval_request,
           rendering |-> Debug_EvaluationRequest(calls[c].eval_request)]]
    /\ UNCHANGED <<pc, response, require_constraints, supported, result, entity,
                   ctor, scope, cond, enforcer>>

NextRequest == \E c \in Calls : BuildRequestWith(c) \/ FormatDebug(c)

SpecRequest == InitRequest /\ [][NextRequest]_vars

(***************************************************************************)
(* SpecPdp: the static AuthZ plugin (static_authz_plugin/domain/service.rs) *)
(* answers an EvaluationRequest of models.rs: the subject has tenant_id,   *)
(* the resource has require_constraints, the context has tenant, a         *)
(* TenantContext of one root_id.                                           *)
(***************************************************************************)
\* Variant of the plugin that looks at the context tenant alone.
Service_evaluate_context_only(request) ==
    IF ~request.resource.require_constraints
    THEN [decision |-> TRUE, constraints |-> <<>>]
    ELSE LET tenant_id ==
                 IF request.context.tenant # NoTenantContext
                 THEN request.context.tenant.root_id
                 ELSE NoUuid
         IN  [decision |-> TRUE,
              constraints |->
                  IF tenant_id \in {NoUuid, NilUuid} THEN <<>>
                  ELSE <<[predicates |->
                            <<InPredicate("owner_tenant_id", <<tenant_id>>)>>]>>]

\* Service::evaluate, service.rs:25-62
Service_evaluate(request) ==
    IF ~request.resource.require_constraints
    THEN [decision |-> TRUE, constraints |-> <<>>]
    ELSE LET tenant_id ==
                 IF request.context.tenant # NoTenantContext
                 THEN request.context.tenant.root_id
                 ELSE request.subject.tenant_id
             constraints ==
                 IF tenant_id # NoUuid
                 THEN IF tenant_id = NilUuid THEN <<>>
                      ELSE <<[predicates |->
                                <<InPredicate("owner_tenant_id", <<tenant_id>>)>>]>>
                 ELSE <<>>
         IN  [decision |-> TRUE, constraints |-> constraints]

\* EvaluationRequest, models.rs:16-79 (make_request of service.rs:72-94)
PluginRequests ==
    [subject : [id : {1}, tenant_id : {NoUuid, NilUuid} \cup Uuids,
                subject_type : {"user"}, properties : {<<>>}],
     action : [name : {"list", "create"}],
     resource : [resource_type : {"users_info.user"}, id : {NoUuid} \cup Uuids,
                 require_constraints : BOOLEAN],
     context : [tenant : {NoTenantContext} \cup [root_id : {NilUuid} \cup Uuids],
                token_scopes : {<<"*">>}, properties : {<<>>}]]

InitPdp ==
    /\ pc = "pdp"
    /\ response = NoResponse
    /\ require_constraints = FALSE
    /\ supported = {}
    /\ result = NoResult
    /\ entity = UsersEntity
    /\ ctor = "none"
    /\ scope = NoScope
    /\ cond = NoCondition
    /\ enforcer = NoEnforcer
    /\ \E request \in PluginRequests :
          calls = [c \in Calls |->
                      IF c = 1 THEN [pc |-> "request", eval_request |-> request]
                      ELSE IdleCall]

\* The plugin answers the request it was handed.
PluginEvaluate(c) ==
    /\ calls[c].pc = "request"
    /\ calls' = [calls EXCEPT ![c] =
          [pc |-> "answered", eval_request |-> calls[c].eval_request,
           answer |-> Service_evaluate(calls[c].eval_request)]]
    /\ UNCHANGED <<pc, response, require_constraints, supported, result, entity,
                   ctor, scope, cond, enforcer>>

NextPdp == \E c \in Calls : PluginEvaluate(c)

SpecPdp == InitPdp /\ [][NextPdp]_vars

(***************************************************************************)
(* SpecService: one operation of the users, cities and addresses services  *)
(* (users_info/src/domain/service).  An operation runs up to its enforcer  *)
(* call, the enforcer returns, the scoped reads run, the write runs.  The  *)
(* repositories are type parameters of the services: a repository call is  *)
(* recorded in the operation's log and its outcome is any outcome the      *)
(* trait allows.                                                           *)
(***************************************************************************)
\* The resource types of the three enforcers (mod.rs:164-195)
USER ==
    [name |-> "users_info.user", supported_properties |-> <<OWNER_TENANT_ID, RESOURCE_ID>>]
CITY ==
    [name |-> "users_info.city", supported_properties |-> <<OWNER_TENANT_ID, RESOURCE_ID>>]
ADDRESS ==
    [name |-> "users_info.address", supported_properties |-> <<OWNER_TENANT_ID, RESOURCE_ID>>]

Operation(name, resource, action, by_id, shape) ==
    [name |-> name, resource |-> resource, action |-> action, by_id |-> by_id,
     shape |-> shape]

\* The operations of the services: the enforcer's resource and action, whether
\* the id is passed as resource_id, and the repository calls that follow.
ServiceOperations ==
    {Operation("get_user", USER, "get", TRUE, "read"),
     Operation("list_users_page", USER, "list", FALSE, "read"),
     Operation("create_user", USER, "create", FALSE, "create_user"),
     Operation("update_user", USER, "update", TRUE, "update"),
     Operation("delete_user", USER, "delete", TRUE, "delete"),
     Operation("get_city", CITY, "get", TRUE, "read"),
     Operation("list_cities_page", CITY, "list", FALSE, "read"),
     Operation("create_city", CITY, "create", FALSE, "create"),
     Operation("update_city", CITY, "update", TRUE, "update"),
     Operation("delete_city", CITY, "delete", TRUE, "delete"),
     Operation("get_address", ADDRESS, "get", TRUE, "read"),
     Operation("list_addresses_page", ADDRESS, "list", FALSE, "read"),
     Operation("get_user_address", ADDRESS, "get", FALSE, "read"),
     Operation("put_user_address", ADDRESS, "update", TRUE, "put"),
     Operation("delete_user_address", ADDRESS, "delete", FALSE, "delete"),
     Operation("create_address", ADDRESS, "create", FALSE, "create"),
     Operation("update_address", ADDRESS, "update", TRUE, "update"),
     Operation("delete_address", ADDRESS, "delete", TRUE, "delete")}

\* Operations that validate their payload first (users.rs:144, 221)
Validated == {"create_user", "update_user"}
\* Operations that read with AccessScope::allow_all() before the enforcer
\* call (addresses.rs:130-138, 236-242)
Prefetching == {"put_user_address", "create_address"}
\* Operations that hand the owner tenant to the PDP as a resource property
\* (cities.rs:96-108, addresses.rs:145-156, 171-182, 247-258)
WithOwnerTenant == {"create_city", "put_user_address", "create_address"}

\* Outcomes of a repository read, count and write
ReadOutcomes == {"Err", "None", "Some"}
CountOutcomes == {"Err", "Zero", "Some"}
WriteOutcomes == {"Err", "Done", "Missing"}
RepositoryWrites == {"create", "update", "delete"}

\* Result<_, DomainError> of an operation
DomainOk(rows) == [tag |-> "Ok", rows |-> rows]
DomainErr(error) == [tag |-> "Err", error |-> error]

\* Responses of a PDP behind the services' client that the compiler refuses:
\* a denial, and constraints on a property it does not know.
RefusedResponses ==
    {[decision |-> FALSE, constraints |-> <<>>],
     [decision |-> TRUE,
      constraints |-> <<[predicates |-> <<EqPredicate(GROUP_ID, 1)>>]>>]}

\* The services share one PDP client, Arc<dyn AuthZResolverGatewayClient>
\* (mod.rs:156-163), and their enforcers have no capabilities (mod.rs:34-38).
ServiceEnforcers ==
    {e \in Enforcers : e.capabilities = <<>>}
    \cup [authz : {"RespondingClient"}, response : RefusedResponses,
          capabilities : {<<>>}]

\* What check_access_with hands to create_user (users.rs:161-176): unit, or
\* an EnforcerError that `?` returns from the operation.
check_access_with_outcomes ==
    {[tag |-> "Ok"], [tag |-> "EvaluationFailed"], [tag |-> "CompileFailed"]}

NoRequest == [tag |-> "None"]

ServiceCall(op, ctx, id, tenant_id, valid, conn_ok) ==
    [pc |-> "called", op |-> op, ctx |-> ctx, id |-> id, tenant_id |-> tenant_id,
     valid |-> valid, conn_ok |-> conn_ok, action |-> op.action,
     eval_request |-> NoRequest, scope |-> NoScope, ret |-> NoResult, log |-> <<>>]

\* The operation returns: nothing of it runs afterwards.
Returned(call, ret, events) ==
    [call EXCEPT !.pc = "returned", !.ret = ret, !.log = @ \o events]

InitService ==
    /\ pc = "service"
    /\ response = NoResponse
    /\ require_constraints = FALSE
    /\ supported = {}
    /\ result = NoResult
    /\ entity = UsersEntity
    /\ ctor = "none"
    /\ scope = NoScope
    /\ cond = NoCondition
    /\ enforcer \in ServiceEnforcers
    /\ \E op \in ServiceOperations, ctx \in SecurityContexts, id \in Uuids,
          tenant_id \in Uuids, valid \in BOOLEAN, conn_ok \in BOOLEAN :
          calls = [c \in Calls |->
                      IF c = 1 THEN ServiceCall(op, ctx, id, tenant_id, valid, conn_ok)
                      ELSE IdleCall]

\* The operation up to the await of its enforcer call: validation, db.conn(),
\* the prefetch reads, then access_scope / access_scope_with up to its await
\* (users.rs:93-102, 144-176, 221-232, 278-286; cities.rs:88-108;
\* addresses.rs:125-156, 171-182).
ServiceCallEnforcer(c) ==
    /\ calls[c].pc = "called"
    /\ LET call == calls[c]
           op == call.op
       IN  \E user \in ReadOutcomes, existing \in ReadOutcomes, address_id \in Uuids :
             LET put == op.name = "put_user_address"
                 action == IF put /\ existing = "None" THEN "create" ELSE op.action
                 resource_id ==
                     IF put THEN (IF existing = "Some" THEN address_id ELSE NoUuid)
                     ELSE IF op.by_id THEN call.id ELSE NoUuid
                 request ==
                     IF op.name \in WithOwnerTenant
                     THEN [resource_properties |->
                               <<[key |-> OWNER_TENANT_ID,
                                  value |-> UuidToString(call.tenant_id)]>>,
                           tenant_context |-> NoTenantContext]
                     ELSE AccessRequest_default
                 prefetched ==
                     IF put THEN <<"prefetch", "prefetch">>
                     ELSE IF op.name \in Prefetching THEN <<"prefetch">> ELSE <<>>
             IN  calls' = [calls EXCEPT ![c] =
                     IF op.name \in Validated /\ ~call.valid
                     THEN Returned(call, DomainErr("validation"), <<>>)
                     ELSE IF ~call.conn_ok
                     THEN Returned(call, DomainErr("database"), <<>>)
                     ELSE IF op.name \in Prefetching /\ user = "Err"
                     THEN Returned(call, DomainErr("database"), <<"prefetch">>)
                     ELSE IF op.name \in Prefetching /\ user = "None"
                     THEN Returned(call, DomainErr("user_not_found"), <<"prefetch">>)
                     ELSE IF put /\ existing = "Err"
                     THEN Returned(call, DomainErr("database"), prefetched)
                     ELSE [call EXCEPT
                              !.pc = "authorizing",
                              !.action = action,
                              !.log = @ \o prefetched,
                              !.eval_request =
                                  IF op.name = "create_user" THEN NoRequest
                                  ELSE build_request_with(enforcer, call.ctx, op.resource,
                                                          action, resource_id, TRUE,
                                                          request)]]
    /\ UNCHANGED <<pc, response, require_constraints, supported, result, entity,
                   ctor, scope, cond, enforcer>>

\* Variant of ServiceEnforcerReturns that goes on with the prefetch scope
\* AccessScope::allow_all() when the enforcer returned an error.
ServiceEnforcerReturns_allow_all_on_error(c) ==
    /\ calls[c].pc = "authorizing"
    /\ LET call == calls[c]
           op == call.op
       IN  \E checked \in check_access_with_outcomes :
             LET answer ==
                     IF op.name = "create_user" THEN checked
                     ELSE access_scope_with_resume(
                              op.resource, evaluate(enforcer, call.eval_request))
                 next == IF op.shape \in {"read", "update", "create_user"}
                         THEN "authorized" ELSE "writing"
             IN  calls' = [calls EXCEPT ![c] =
                     IF answer.tag # "Ok"
                     THEN [call EXCEPT !.pc = next, !.scope = allow_all,
                                       !.log = @ \o <<"enforcer_err">>]
                     ELSE [call EXCEPT
                              !.pc = next,
                              !.scope = IF op.name = "create_user"
                                        THEN for_tenant(call.tenant_id)
                                        ELSE answer.scope,
                              !.log = @ \o <<"enforcer_ok">>]]
    /\ UNCHANGED <<pc, response, require_constraints, supported, result, entity,
                   ctor, scope, cond, enforcer>>

\* The enforcer call returns and `?` is applied to it: an EnforcerError
\* returns from the operation, a scope lets it go on (users.rs:98-102,
\* 161-178, 229-232, 283-286; cities.rs:96-108; addresses.rs:145-156, 171-182).
ServiceEnforcerReturns(c) ==
    /\ calls[c].pc = "authorizing"
    /\ LET call == calls[c]
           op == call.op
       IN  \E checked \in check_access_with_outcomes :
             LET answer ==
                     IF op.name = "create_user" THEN checked
                     ELSE access_scope_with_resume(
                              op.resource, evaluate(enforcer, call.eval_request))
                 next == IF op.shape \in {"read", "update", "create_user"}
                         THEN "authorized" ELSE "writing"
             IN  calls' = [calls EXCEPT ![c] =
                     IF answer.tag # "Ok"
                     THEN Returned(call, DomainErr(answer.tag), <<"enforcer_err">>)
                     ELSE [call EXCEPT
                              !.pc = next,
                              !.scope = IF op.name = "create_user"
                                        THEN for_tenant(call.tenant_id)
                                        ELSE answer.scope,
                              !.log = @ \o <<"enforcer_ok">>]]
    /\ UNCHANGED <<pc, response, require_constraints, supported, result, entity,
                   ctor, scope, cond, enforcer>>

\* The scoped reads after the enforcer call: the read of get / list
\* operations (users.rs:104-109, 125-128), the lookup before an update
\* (users.rs:234-246) and the uniqueness checks of create_user
\* (users.rs:193-203).
ServiceRead(c) ==
    /\ calls[c].pc = "authorized"
    /\ LET call == calls[c]
           op == call.op
       IN  \E found \in ReadOutcomes, count \in CountOutcomes :
             calls' = [calls EXCEPT ![c] =
                 IF found = "Err"
                 THEN Returned(call, DomainErr("database"), <<"read">>)
                 ELSE IF op.shape = "read"
                 THEN IF found = "Some"
                      THEN Returned(call, DomainOk(<<call.id>>), <<"read">>)
                      ELSE IF op.by_id
                      THEN Returned(call, DomainErr("not_found"), <<"read">>)
                      ELSE Returned(call, DomainOk(<<>>), <<"read">>)
                 ELSE IF op.shape = "update" /\ found = "None"
                 THEN Returned(call, DomainErr("not_found"), <<"read">>)
                 ELSE IF op.shape = "create_user" /\ found = "Some"
                 THEN Returned(call, DomainErr("validation"), <<"read">>)
                 ELSE IF op.name \in Validated /\ count = "Err"
                 THEN Returned(call, DomainErr("database"), <<"read", "read">>)
                 ELSE IF op.name \in Validated /\ count = "Some"
                 THEN Returned(call, DomainErr("email_already_exists"),
                               <<"read", "read">>)
                 ELSE [call EXCEPT
                          !.pc = "writing",
                          !.log = @ \o (IF op.name \in Validated
                                        THEN <<"read", "read">> ELSE <<"read">>)]]
    /\ UNCHANGED <<pc, response, require_constraints, supported, result, entity,
                   ctor, scope, cond, enforcer>>

\* The repository write with the scope, and the operation's return
\* (users.rs:205-217, 256-264, 288-300; cities.rs:121-124;
\* addresses.rs:164-167, 197-200).
ServiceWrite(c) ==
    /\ calls[c].pc = "writing"
    /\ LET call == calls[c]
       IN  \E out \in WriteOutcomes :
             /\ out = "Missing" => call.action = "delete"
             /\ calls' = [calls EXCEPT ![c] =
                   Returned(call,
                            IF out = "Err" THEN DomainErr("database")
                            ELSE IF out = "Missing" THEN DomainErr("not_found")
                            ELSE IF call.action = "delete" THEN DomainOk(<<>>)
                            ELSE DomainOk(<<call.id>>),
                            <<call.action>>)]
    /\ UNCHANGED <<pc, response, require_constraints, supported, result, entity,
                   ctor, scope, cond, enforcer>>

NextService ==
    \E c \in Calls :
        ServiceCallEnforcer(c) \/ ServiceEnforcerReturns(c) \/ ServiceRead(c)
            \/ ServiceWrite(c)

SpecService == InitService /\ [][NextService]_vars

(***************************************************************************)
(* SpecGateway: the api gateway's route policy (api_gateway/src/auth.rs).  *)
(* A policy is built from the per-method matchers of secured and of public *)
(* routes and resolves the (method, path) of a request.                    *)
(***************************************************************************)
Methods == {"GET", "POST"}

\* Route patterns in matchit syntax and request paths, as segment lists
\* (auth.rs:341-353, 423-434, 445-451)
Patterns == {<<"public">>, <<"users", "{id}">>}
Paths == {<<"public">>, <<"users", "42">>, <<"profile">>}

\* RouteRequirement, auth.rs:14-19
RouteRequirements ==
    {[resource |-> "users", action |-> "read"],
     [resource |-> "admin", action |-> "access"]}
NoRequirement == [none |-> TRUE]

\* matchit::Router::at: a {param} segment matches any one segment, another
\* segment matches itself (auth.rs:326-338).
Matches(pattern, path) ==
    /\ Len(pattern) = Len(path)
    /\ \A k \in 1..Len(pattern) : pattern[k] = "{id}" \/ pattern[k] = path[k]

\* RouteMatcher: the requirements inserted under their patterns (auth.rs:21-39)
RouteMatchers == UNION {[P -> RouteRequirements] : P \in SUBSET Patterns}
\* PublicRouteMatcher: the patterns inserted (auth.rs:41-60)
PublicRouteMatchers == SUBSET Patterns

\* RouteMatcher::find, auth.rs:36-38
RouteMatcher_find(matcher, path) ==
    IF \E p \in DOMAIN matcher : Matches(p, path)
    THEN matcher[CHOOSE p \in DOMAIN matcher : Matches(p, path)]
    ELSE NoRequirement

\* PublicRouteMatcher::find, auth.rs:57-59
PublicRouteMatcher_find(matcher, path) == \E p \in matcher : Matches(p, path)

\* AuthRequirement, auth.rs:90-97
AuthRequirement_None == [tag |-> "None"]
AuthRequirement_Required(requirement) ==
    [tag |-> "Required", requirement |-> requirement]

\* GatewayRoutePolicy::new, auth.rs:108-118: HashMap<Method, _> has an entry
\* for some of the methods.
GatewayRoutePolicies ==
    [route_matchers : UNION {[M -> RouteMatchers] : M \in SUBSET Methods},
     public_matchers : UNION {[M -> PublicRouteMatchers] : M \in SUBSET Methods},
     require_auth_by_default : BOOLEAN]

\* Variant of resolve in which a public route is never authenticated, also
\* when a requirement is registered for it.
GatewayRoutePolicy_resolve_public_first(self, method, path) ==
    LET requirement ==
            IF method \in DOMAIN self.route_matchers
            THEN RouteMatcher_find(self.route_matchers[method], path)
            ELSE NoRequirement
        is_public ==
            /\ method \in DOMAIN self.public_matchers
            /\ PublicRouteMatcher_find(self.public_matchers[method], path)
        needs_authn ==
            ~is_public /\ (requirement # NoRequirement \/ self.require_auth_by_default)
    IN  IF needs_authn THEN AuthRequirement_Required(requirement)
        ELSE AuthRequirement_None

\* GatewayRoutePolicy::resolve, auth.rs:120-143
GatewayRoutePolicy_resolve(self, method, path) ==
    LET requirement ==
            IF method \in DOMAIN self.route_matchers
            THEN RouteMatcher_find(self.route_matchers[method], path)
            ELSE NoRequirement
        is_public ==
            /\ method \in DOMAIN self.public_matchers
            /\ PublicRouteMatcher_find(self.public_matchers[method], path)
        needs_authn ==
            requirement # NoRequirement \/ (self.require_auth_by_default /\ ~is_public)
    IN  IF needs_authn THEN AuthRequirement_Required(requirement)
        ELSE AuthRequirement_None

InitGateway ==
    /\ pc = "gateway"
    /\ response = NoResponse
    /\ require_constraints = FALSE
    /\ supported = {}
    /\ result = NoResult
    /\ entity = UsersEntity
    /\ ctor = "none"
    /\ scope = NoScope
    /\ cond = NoCondition
    /\ enforcer = NoEnforcer
    /\ \E policy \in GatewayRoutePolicies, method \in Methods, path \in Paths :
          calls = [c \in Calls |->
                      IF c = 1
                      THEN [pc |-> "request", policy |-> policy, method |-> method,
                            path |-> path]
                      ELSE IdleCall]

\* The middleware resolves the request's method and path (auth.rs:120).
Resolve(c) ==
    /\ calls[c].pc = "request"
    /\ calls' = [calls EXCEPT ![c] =
          [pc |-> "resolved", policy |-> calls[c].policy,
           method |-> calls[c].method, path |-> calls[c].path,
           auth |-> GatewayRoutePolicy_resolve(calls[c].policy, calls[c].method,
                                               calls[c].path)]]
    /\ UNCHANGED <<pc, response, require_constraints, supported, result, entity,
                   ctor, scope, cond, enforcer>>

NextGateway == \E c \in Calls : Resolve(c)

SpecGateway == InitGateway /\ [][NextGateway]_vars

(***************************************************************************)
(* Claims about the compiler, checked under Spec                           *)
(***************************************************************************)
Compiled == pc \in {"compiled", "translated"}

HasUnsupported(constraint) == ~ConstraintSupported(constraint, supported)

\* C1: whenever the PDP response has decision = false, compile returns
\* Err(Denied), whatever require_constraints and the constraint list are, and
\* no AccessScope is produced.
C1_DeniedOnDecisionFalse ==
    (Compiled /\ ~response.decision) => (result = Denied /\ scope = NoScope)

C1_Witness ==
    /\ pc = "compiled"
    /\ ~response.decision
    /\ ~require_constraints
    /\ Len(response.constraints) = 2
    /\ HasUnsupported(response.constraints[1])
    /\ ~HasUnsupported(response.constraints[2])
    /\ result = Denied

\* C2: with decision = true and require_constraints = true, every constraint
\* with a predicate on a property outside supported_properties is dropped as a
\* whole: the result is that of compiling the remaining constraints alone, and
\* Err(AllConstraintsFailed) when none remains.
C2_UnsupportedDropped ==
    (Compiled /\ response.decision /\ require_constraints
        /\ response.constraints # <<>>) =>
    LET kept == SelectSeq(response.constraints, LAMBDA c : ~HasUnsupported(c))
    IN  IF kept = <<>>
        THEN result.tag = "AllConstraintsFailed"
        ELSE result = compile_to_access_scope(
                          [decision |-> TRUE, constraints |-> kept], TRUE, supported)

\* C3: compilation never widens access: for decision = true, a non-empty
\* constraint list and require_constraints = true, every row the resulting
\* scope admits satisfies all predicates of one constraint of the response.
C3_NeverWidens ==
    (Compiled /\ response.decision /\ require_constraints
        /\ response.constraints # <<>> /\ result.tag = "Ok") =>
    \A row \in Rows :
        ScopeAdmits(result.scope, row) =>
            \E i \in 1..Len(response.constraints) :
                RowSatisfiesConstraint(row, response.constraints[i])

\* C4: for a scope compiled from constraints that all use supported
\* properties, a row satisfies the translated scope if and only if it
\* satisfies at least one of the constraints.
C4_TranslationIsOr ==
    (pc = "translated" /\ response.decision /\ require_constraints
        /\ response.constraints # <<>>
        /\ \A i \in 1..Len(response.constraints) :
              ~HasUnsupported(response.constraints[i])) =>
    \A row \in Rows :
        EvalCondition(cond, row) <=>
            \E i \in 1..Len(response.constraints) :
                RowSatisfiesConstraint(row, response.constraints[i])

C6_NeverAllowAllForConstraints ==
    (Compiled /\ response.decision /\ require_constraints
        /\ response.constraints # <<>> /\ result.tag = "Ok") =>
    ~is_unconstrained(result.scope)

\* C7: for decision = true, compile with require_constraints = false returns
\* Ok(allow_all) whatever the constraints are.
C7_AllowAllWhenNotRequired ==
    (Compiled /\ response.decision /\ ~require_constraints) =>
    (result = Ok(allow_all) /\ scope = allow_all)

C7_Witness ==
    /\ pc = "compiled"
    /\ response.decision
    /\ ~require_constraints
    /\ Len(response.constraints) = 2
    /\ HasUnsupported(response.constraints[1])
    /\ response.constraints[2].predicates = <<EqPredicate(OWNER_TENANT_ID, 1)>>
    /\ result = Ok(allow_all)

NoRootOverride(request) ==
    \/ request.tenant_context = NoTenantContext
    \/ request.tenant_context.root_id = NoUuid

\* C9: with the allow-all PDP, access_scope for an anonymous caller (no
\* subject tenant, no root-id override) returns the compile error
\* AllConstraintsFailed and never an allow-all scope.
C9_AnonymousGetsCompileError ==
    \A c \in Calls :
        (/\ calls[c].pc = "done"
         /\ enforcer.authz = "AllowAllMock"
         /\ calls[c].ctx.subject_tenant_id = NoUuid
         /\ NoRootOverride(calls[c].access_request)) =>
        (/\ calls[c].result.tag = "CompileFailed"
         /\ calls[c].result.error.tag = "AllConstraintsFailed")

(***************************************************************************)
(* Claims about AccessScope and its translation, checked under SpecScope   *)
(***************************************************************************)
Constructed == pc \in {"constructed", "translated"}

\* C10: a default-constructed AccessScope equals deny_all() and satisfies
\* is_deny_all(); build_scope_condition rejects every row for a deny-all
\* scope and accepts every row for allow_all().
C10_DefaultDenyAll ==
    /\ (Constructed /\ ctor = "default") =>
            (scope = deny_all /\ is_deny_all(scope))
    /\ (pc = "translated" /\ is_deny_all(scope)) =>
            \A row \in Rows : ~EvalCondition(cond, row)
    /\ (pc = "translated" /\ ctor = "allow_all") =>
            (scope = allow_all /\ \A row \in Rows : EvalCondition(cond, row))

C10_Witness ==
    /\ pc = "translated"
    /\ ctor = "default"
    /\ is_deny_all(scope)
    /\ entity = UsersEntity
    /\ \A row \in Rows : ~EvalCondition(cond, row)

\* The filters of a constraint all name properties the entity resolves.
AllResolve(E, constraint) ==
    \A f \in 1..Len(constraint.filters) :
        resolve_property(E, constraint.filters[f].property) # NoColumn

\* The row's value of the filter's mapped column is one of the filter's values.
RowInFilter(E, row, filter) ==
    \E k \in 1..Len(filter.values) :
        row[resolve_property(E, filter.property)] = filter.values[k]

\* C11: for a constrained scope, a constraint with a filter on a property the
\* entity cannot resolve is discarded as a whole; the condition is the OR of
\* the surviving constraints (each the AND of its filters), and it rejects
\* every row when no constraint survives.
C11_UnresolvedConstraintDiscarded ==
    (pc = "translated" /\ ~is_unconstrained(scope) /\ ~is_deny_all(scope)) =>
    /\ \A row \in Rows :
          EvalCondition(cond, row) <=>
              \E c \in 1..Len(scope.constraints) :
                  /\ AllResolve(entity, scope.constraints[c])
                  /\ \A f \in 1..Len(scope.constraints[c].filters) :
                        RowInFilter(entity, row, scope.constraints[c].filters[f])
    /\ (\A c \in 1..Len(scope.constraints) : ~AllResolve(entity, scope.constraints[c]))
          => (cond = cond_deny_all /\ \A row \in Rows : ~EvalCondition(cond, row))

C11_Witness ==
    /\ pc = "translated"
    /\ entity = (OWNER_TENANT_ID :> "tenant_id")
    /\ scope = from_constraints(
          << ScopeConstraint_new(<< ScopeFilter_new(OWNER_TENANT_ID, "In", <<1>>),
                                    ScopeFilter_new(GROUP_ID, "In", <<1>>) >>),
             ScopeConstraint_new(<< ScopeFilter_new(OWNER_TENANT_ID, "In", <<2>>) >>) >>)
    /\ cond = Condition_all(<<Expr_is_in("tenant_id", <<2>>)>>)
    /\ \E row \in Rows : row["tenant_id"] = 1 /\ ~EvalCondition(cond, row)

\* C12: for a single ScopeConstraint whose filter properties all resolve, a
\* row satisfies the translated condition if and only if for every filter the
\* row's value of the mapped column is one of the filter's values.
C12_AndWithinConstraint ==
    (pc = "translated" /\ ctor = "single" /\ AllResolve(entity, scope.constraints[1])) =>
    /\ build_constraint_condition(entity, scope.constraints[1]).some
    /\ cond = build_constraint_condition(entity, scope.constraints[1]).cond
    /\ \A row \in Rows :
          EvalCondition(cond, row) <=>
              \A f \in 1..Len(scope.constraints[1].filters) :
                  RowInFilter(entity, row, scope.constraints[1].filters[f])

C12_Witness ==
    /\ pc = "translated"
    /\ ctor = "single"
    /\ entity = UsersEntity
    /\ scope.constraints[1].filters =
          << ScopeFilter_new(OWNER_TENANT_ID, "In", <<1>>),
             ScopeFilter_new(RESOURCE_ID, "In", <<2>>) >>
    /\ \E row \in Rows : EvalCondition(cond, row)
    /\ \E row \in Rows : row["tenant_id"] = 1 /\ ~EvalCondition(cond, row)

\* A filter of the scope carries no value.
HasEmptyFilter(s) ==
    \E c \in 1..Len(s.constraints) :
        \E f \in 1..Len(s.constraints[c].filters) :
            s.constraints[c].filters[f].values = <<>>

ConvenienceConstructors ==
    {"for_tenant", "for_tenants", "for_resource", "for_resources",
     "for_tenants_and_resources"}

\* C13: no scope built by a convenience constructor has a filter with an
\* empty value list: for_tenants([]), for_resources([]) and
\* for_tenants_and_resources([], []) give deny-all.  (The compiler's half of
\* the claim, In(p, []) compiling to deny-all, is the case
\* C6_NeverAllowAllForConstraints fails on under Spec.)
C13_NoEmptyFilter ==
    (Constructed /\ ctor \in ConvenienceConstructors) =>
    /\ ~HasEmptyFilter(scope)
    /\ scope \in {for_tenants(<<>>), for_resources(<<>>),
                  for_tenants_and_resources(<<>>, <<>>)} => is_deny_all(scope)

(***************************************************************************)
(* Claims about access_scope / access_scope_with, checked under SpecPep    *)
(***************************************************************************)
\* C14: when the PDP's evaluate returns an error, access_scope_with returns
\* Err(EvaluationFailed(e)) with that same error: never Ok(scope), never
\* CompileFailed, the result of no compilation.
C14_EvaluationErrorSurfaced ==
    \A c \in Calls :
        (calls[c].pc = "done" /\ enforcer.authz # "AllowAllMock") =>
        /\ calls[c].answer.tag = "Err"
        /\ calls[c].answer.error \in AuthZResolverErrors
        /\ calls[c].answer.error =
              (IF enforcer.authz = "FailMock" THEN "Internal" ELSE enforcer.error)
        /\ calls[c].result =
              [tag |-> "EvaluationFailed", error |-> calls[c].answer.error]
        /\ calls[c].result.tag \notin {"Ok", "CompileFailed"}

C14_Witness ==
    \E c \in Calls :
        /\ calls[c].pc = "done"
        /\ enforcer.authz = "FailingClient"
        /\ enforcer.error = "ServiceUnavailable"
        /\ calls[c].ctx.subject_tenant_id = 1
        /\ calls[c].result = [tag |-> "EvaluationFailed", error |-> "ServiceUnavailable"]

IsTenant(id) == id \notin {NoUuid, NilUuid}

\* The root_id of the AccessRequest's tenant-context override, if any.
OverrideRoot(request) ==
    IF request.tenant_context = NoTenantContext THEN NoUuid
    ELSE request.tenant_context.root_id

\* The root_id the built request carries, NoUuid without a tenant context.
RequestRoot(req) ==
    IF req.context.tenant_context = NoTenantContext THEN NoUuid
    ELSE req.context.tenant_context.root_id

\* C16: the root tenant id of the built request is the first non-nil value
\* among the AccessRequest override root_id and the subject tenant id: a
\* non-nil override wins, and with the override absent or nil a non-nil
\* subject tenant is the root id.
C16_RootIsFirstNonNil ==
    \A c \in Calls :
        calls[c].pc = "built" =>
        LET o == OverrideRoot(calls[c].access_request)
            sub == calls[c].ctx.subject_tenant_id
        IN  RequestRoot(calls[c].eval_request) =
                IF IsTenant(o) THEN o
                ELSE IF IsTenant(sub) THEN sub
                ELSE NoUuid

\* C17: the built request has a tenant context if and only if
\* build_request_with resolved a root id; then its root_id is that id and its
\* mode, barrier mode and status filter are the AccessRequest's overrides, or
\* Subtree, Respect and no status filter without overrides; with no root id
\* there is no tenant context, whatever modes were overridden.
C17_TenantContextIffRoot ==
    \A c \in Calls :
        calls[c].pc = "built" =>
        LET r == resolve_root_id(calls[c].ctx, calls[c].access_request)
            ov == calls[c].access_request.tenant_context
            tc == calls[c].eval_request.context.tenant_context
        IN  /\ (tc # NoTenantContext) <=> (r # NoUuid)
            /\ (~IsTenant(OverrideRoot(calls[c].access_request))
                    /\ ~IsTenant(calls[c].ctx.subject_tenant_id))
                  => tc = NoTenantContext
            /\ tc # NoTenantContext =>
                  /\ tc.root_id = r
                  /\ IsTenant(tc.root_id)
                  /\ tc.root_id \in {OverrideRoot(calls[c].access_request),
                                     calls[c].ctx.subject_tenant_id}
                  /\ tc.mode = (IF ov = NoTenantContext THEN "Subtree" ELSE ov.mode)
                  /\ tc.barrier_mode =
                        (IF ov = NoTenantContext THEN "Respect" ELSE ov.barrier_mode)
                  /\ tc.tenant_status =
                        (IF ov = NoTenantContext THEN NoStatus ELSE ov.tenant_status)

C17_Witness ==
    \E c \in Calls :
        /\ calls[c].pc = "built"
        /\ calls[c].ctx.subject_tenant_id = 2
        /\ calls[c].access_request.tenant_context =
              [root_id |-> NoUuid, mode |-> "RootOnly", barrier_mode |-> "Ignore",
               tenant_status |-> <<"active">>]
        /\ calls[c].eval_request.context.tenant_context =
              [root_id |-> 2, mode |-> "RootOnly", barrier_mode |-> "Ignore",
               tenant_status |-> <<"active">>]

\* C18: build_request_with copies into the request, unaltered, the token
\* scopes in the caller's order, the resource id, the action name, the
\* resource type name, the enforcer's capabilities, the resource type's
\* supported properties, the require_constraints flag and the AccessRequest's
\* resource properties, and leaves the SecurityContext, the AccessRequest and
\* the enforcer as they were.
C18_RequestCopiesInputs ==
    [][\A c \in Calls :
          (calls[c].pc = "calling" /\ calls'[c].pc = "built") =>
          LET req == calls'[c].eval_request
          IN  /\ req.context.token_scopes = calls[c].ctx.token_scopes
              /\ req.resource.id = calls[c].resource_id
              /\ req.action.name = calls[c].action
              /\ req.resource.resource_type = calls[c].resource.name
              /\ req.context.capabilities = enforcer.capabilities
              /\ req.context.supported_properties =
                    calls[c].resource.supported_properties
              /\ req.context.require_constraints = calls[c].require_constraints
              /\ req.resource.properties = calls[c].access_request.resource_properties
              /\ calls'[c].ctx = calls[c].ctx
              /\ calls'[c].access_request = calls[c].access_request
              /\ calls'[c].resource = calls[c].resource
              /\ enforcer' = enforcer]_vars

C18_Witness ==
    \E c \in Calls :
        /\ calls[c].pc = "built"
        /\ enforcer.capabilities = <<"TenantHierarchy">>
        /\ calls[c].ctx.token_scopes = <<"write", "read">>
        /\ calls[c].resource = USERS_RESOURCE
        /\ calls[c].action = "create"
        /\ calls[c].resource_id = 2
        /\ ~calls[c].require_constraints
        /\ calls[c].access_request.resource_properties # <<>>
        /\ calls[c].eval_request.context.token_scopes = <<"write", "read">>
        /\ calls[c].eval_request.resource.id = 2
        /\ ~calls[c].eval_request.context.require_constraints

(***************************************************************************)
(* Claims about the static AuthZ plugin, checked under SpecPdp             *)
(***************************************************************************)
\* C19: the allow-all plugin answers every request with decision = true;
\* its constraints are the one constraint [In(owner_tenant_id, [root_id])]
\* when the request's tenant context has a root_id other than the nil Uuid,
\* and none in every other case.
C19_PluginScopesToContextTenant ==
    \A c \in Calls :
        calls[c].pc = "answered" =>
        LET tenant == calls[c].eval_request.context.tenant
        IN  /\ calls[c].answer.decision
            /\ calls[c].answer.constraints =
                  IF tenant # NoTenantContext /\ tenant.root_id # NilUuid
                  THEN <<[predicates |->
                            <<InPredicate(OWNER_TENANT_ID, <<tenant.root_id>>)>>]>>
                  ELSE <<>>

\* C20: with the allow-all PDP and a resource type supporting
\* owner_tenant_id, access_scope for a caller whose effective root tenant is
\* T (the AccessRequest's context_tenant_id when one is given, the subject
\* tenant otherwise) returns Ok(scope) with is_unconstrained() = false and
\* all_values_for("owner_tenant_id") = [T].
C20_TenantScopeForEffectiveRoot ==
    \A c \in Calls :
        (/\ calls[c].pc = "done"
         /\ enforcer.authz = "AllowAllMock"
         /\ OWNER_TENANT_ID \in Range(calls[c].resource.supported_properties)) =>
        LET o == OverrideRoot(calls[c].access_request)
            T == IF o # NoUuid THEN o ELSE calls[c].ctx.subject_tenant_id
        IN  IsTenant(T) =>
                /\ calls[c].result.tag = "Ok"
                /\ ~is_unconstrained(calls[c].result.scope)
                /\ all_values_for(calls[c].result.scope, OWNER_TENANT_ID) = <<T>>

C20_Witness ==
    \E c \in Calls :
        /\ calls[c].pc = "done"
        /\ enforcer.authz = "AllowAllMock"
        /\ calls[c].ctx.subject_tenant_id = 1
        /\ OverrideRoot(calls[c].access_request) = 2
        /\ calls[c].result.tag = "Ok"
        /\ ~is_unconstrained(calls[c].result.scope)
        /\ all_values_for(calls[c].result.scope, OWNER_TENANT_ID) = <<2>>

(***************************************************************************)
(* Claims about concurrent and cancelled calls, checked under SpecPep      *)
(***************************************************************************)
\* What call c alone returns: the compilation of the PDP's answer to the
\* request built from the call's own arguments.
OwnResult(c) ==
    access_scope_with_resume(
        calls[c].resource,
        evaluate(enforcer,
                 build_request_with(enforcer, calls[c].ctx, calls[c].resource,
                                    calls[c].action, NoUuid, TRUE,
                                    calls[c].access_request)))

\* C21: however concurrent access_scope calls on one enforcer interleave and
\* in whatever order the PDP answers them, each call's result is the
\* compilation of the PDP response to that call's own request, and the
\* enforcer's PDP client and capabilities stay what they were.
C21_ConcurrentCallsIndependent ==
    /\ [](\A c \in Calls : calls[c].pc = "done" => calls[c].result = OwnResult(c))
    /\ [][enforcer' = enforcer]_vars

C21_Witness ==
    /\ enforcer.authz = "AllowAllMock"
    /\ calls[1].pc = "awaiting"
    /\ calls[1].ctx.subject_tenant_id = 1
    /\ calls[2].pc = "done"
    /\ calls[2].ctx.subject_tenant_id = 2
    /\ calls[2].access_request = AccessRequest_default
    /\ calls[2].result = Ok(for_tenants(<<2>>))

\* C22: a call cancelled while it awaits the PDP yields no AccessScope and
\* is never compiled; the cancellation changes nothing of the enforcer and
\* nothing of the other calls, whose results stay those of their own
\* requests.
C22_CancelledCallYieldsNothing ==
    /\ [](\A c \in Calls :
            /\ calls[c].pc = "cancelled" => calls[c] = CancelledCall
            /\ calls[c].pc = "done" => calls[c].result = OwnResult(c))
    /\ [][\A c \in Calls :
            /\ calls[c].pc = "cancelled" => calls'[c] = calls[c]
            /\ (calls[c].pc = "awaiting" /\ calls'[c].pc = "cancelled") =>
                  /\ enforcer' = enforcer
                  /\ \A d \in Calls \ {c} : calls'[d] = calls[d]]_vars

C22_Witness ==
    /\ enforcer.authz = "AllowAllMock"
    /\ calls[1] = CancelledCall
    /\ calls[2].pc = "done"
    /\ calls[2].ctx.subject_tenant_id = 2
    /\ calls[2].result.tag = "Ok"
    /\ all_values_for(calls[2].result.scope, OWNER_TENANT_ID) = <<2>>

\* C25: a call goes from building its request to awaiting the PDP and from
\* there to its result: evaluate is invoked once per call, also after an
\* error, the await of evaluate is the call's only suspension point, and a
\* compiled result exists only for a response evaluate returned.
C25_BuildEvaluateCompile ==
    /\ [](\A c \in Calls :
            /\ calls[c].pc \in {"idle", "awaiting", "done", "cancelled"}
            /\ calls[c].pc \in {"awaiting", "done"} => calls[c].evaluations = 1
            /\ calls[c].pc = "awaiting" => "result" \notin DOMAIN calls[c]
            /\ calls[c].pc = "done" =>
                  /\ calls[c].answer = evaluate(enforcer, calls[c].eval_request)
                  /\ calls[c].result.tag \in {"Ok", "CompileFailed"}
                        <=> calls[c].answer.tag = "Ok")
    /\ [][\A c \in Calls :
            calls'[c] # calls[c] =>
                <<calls[c].pc, calls'[c].pc>> \in
                    {<<"idle", "awaiting">>, <<"awaiting", "done">>,
                     <<"awaiting", "cancelled">>}]_vars

C25_Witness ==
    \E c \in Calls :
        /\ calls[c].pc = "done"
        /\ enforcer.authz = "FailMock"
        /\ calls[c].evaluations = 1
        /\ calls[c].answer.tag = "Err"
        /\ calls[c].result.tag = "EvaluationFailed"

\* C23: the Debug rendering of a request built from a SecurityContext with
\* a bearer token does not contain the raw token, and the request built from
\* the same arguments with another bearer token has the same rendering.
C23_DebugRedactsBearerToken ==
    \A c \in Calls :
        calls[c].pc = "formatted" =>
        /\ calls[c].eval_request.context.bearer_token.secret = calls[c].ctx.bearer_token
        /\ calls[c].ctx.bearer_token \notin Range(calls[c].rendering)
        /\ \A b \in BearerTokens :
              Debug_EvaluationRequest(
                  build_request_with(enforcer,
                                     [calls[c].ctx EXCEPT !.bearer_token = b],
                                     calls[c].resource, calls[c].action,
                                     calls[c].resource_id,
                                     calls[c].require_constraints,
                                     calls[c].access_request))
              = calls[c].rendering

C23_Witness ==
    \E c \in Calls :
        /\ calls[c].pc = "formatted"
        /\ calls[c].ctx.bearer_token = "other-token"
        /\ calls[c].eval_request.context.bearer_token = [secret |-> "other-token"]
        /\ "SecretBox<str>([REDACTED])" \in Range(calls[c].rendering)
        /\ "other-token" \notin Range(calls[c].rendering)

(***************************************************************************)
(* Claims about compile_constraint, checked under Spec                     *)
(***************************************************************************)
PredicateValues(predicate) ==
    IF predicate.kind = "Eq" THEN <<predicate.value>> ELSE predicate.values

\* The values of the predicates on property p, merged in predicate order.
RECURSIVE MergedValues(_, _, _)
MergedValues(predicates, p, i) ==
    IF i > Len(predicates) THEN <<>>
    ELSE (IF predicates[i].property = p THEN PredicateValues(predicates[i]) ELSE <<>>)
         \o MergedValues(predicates, p, i + 1)

\* A response of one constraint, compiled with constraints required, whose
\* predicates are all on supported properties.
OneSupportedConstraint ==
    /\ Compiled /\ response.decision /\ require_constraints
    /\ Len(response.constraints) = 1
    /\ response.constraints[1].predicates # <<>>
    /\ ~HasUnsupported(response.constraints[1])

\* C24: within one constraint Eq(p, v) on a supported property becomes an In
\* filter on p with values [v], In(p, vs) an In filter with values vs, and
\* the predicates on one property become a single filter whose values are
\* theirs merged in predicate order.
C24_PredicatesMergePerProperty ==
    OneSupportedConstraint =>
    LET preds == response.constraints[1].predicates
        named == {preds[k].property : k \in 1..Len(preds)}
    IN  /\ result.tag = "Ok"
        /\ ~is_unconstrained(result.scope)
        /\ Len(result.scope.constraints) = 1
        /\ LET filters == result.scope.constraints[1].filters
           IN  /\ {filters[f].property : f \in 1..Len(filters)} = named
               /\ \A f \in 1..Len(filters) :
                     /\ filters[f].op = "In"
                     /\ filters[f].values = MergedValues(preds, filters[f].property, 1)
                     /\ \A g \in 1..Len(filters) :
                           filters[g].property = filters[f].property => g = f

\* C26 as stated: with constraints required and no tenant context the
\* plugin answers the single constraint In(owner_tenant_id, [subject
\* tenant]); with require_constraints = false it answers decision = true
\* and no constraints, whatever the tenant.
C26_FallbackAsStated ==
    \A c \in Calls :
        calls[c].pc = "answered" =>
        LET req == calls[c].eval_request
        IN  /\ (req.resource.require_constraints
                    /\ req.context.tenant = NoTenantContext) =>
                  calls[c].answer =
                      [decision |-> TRUE,
                       constraints |->
                           <<[predicates |->
                                <<InPredicate(OWNER_TENANT_ID,
                                              <<req.subject.tenant_id>>)>>]>>]
            /\ ~req.resource.require_constraints =>
                  calls[c].answer = [decision |-> TRUE, constraints |-> <<>>]

\* C26, amended: with constraints required and no tenant context the plugin
\* falls back to the subject's tenant id: for a subject tenant that is
\* present and not nil it answers the single constraint
\* In(owner_tenant_id, [subject tenant]), for an absent or nil subject
\* tenant it answers no constraints; with require_constraints = false it
\* answers decision = true and no constraints, whatever the tenant.
C26_PluginFallsBackToSubjectTenant ==
    \A c \in Calls :
        calls[c].pc = "answered" =>
        LET req == calls[c].eval_request
        IN  /\ (req.resource.require_constraints
                    /\ req.context.tenant = NoTenantContext) =>
                  calls[c].answer =
                      [decision |-> TRUE,
                       constraints |->
                           IF IsTenant(req.subject.tenant_id)
                           THEN <<[predicates |->
                                     <<InPredicate(OWNER_TENANT_ID,
                                                   <<req.subject.tenant_id>>)>>]>>
                           ELSE <<>>]
            /\ ~req.resource.require_constraints =>
                  calls[c].answer = [decision |-> TRUE, constraints |-> <<>>]

C26_Witness ==
    \E c \in Calls :
        /\ calls[c].pc = "answered"
        /\ calls[c].eval_request.resource.require_constraints
        /\ calls[c].eval_request.context.tenant = NoTenantContext
        /\ calls[c].eval_request.subject.tenant_id = 2
        /\ calls[c].answer.constraints =
              <<[predicates |-> <<InPredicate(OWNER_TENANT_ID, <<2>>)>>]>>

\* C27: in the users, cities and addresses services a repository write
\* (create, update, delete) happens only after the enforcer call of the same
\* operation returned a scope; when the enforcer call returned an error
\* (evaluation or compile failure) the operation has returned an error with
\* no rows, nothing ran after the enforcer call and no write was made.
C27_NoWriteUnlessEnforcerReturnedOk ==
    \A c \in Calls :
        calls[c].pc # "idle" =>
            LET log == calls[c].log
            IN  /\ \A k \in 1..Len(log) :
                       log[k] \in RepositoryWrites =>
                           \E j \in 1..(k - 1) : log[j] = "enforcer_ok"
                /\ (\E k \in 1..Len(log) : log[k] = "enforcer_err") =>
                       /\ calls[c].pc = "returned"
                       /\ calls[c].ret.tag = "Err"
                       /\ calls[c].ret.error \in {"EvaluationFailed", "CompileFailed"}
                       /\ "rows" \notin DOMAIN calls[c].ret
                       /\ log[Len(log)] = "enforcer_err"
                       /\ \A k \in 1..Len(log) : log[k] \notin RepositoryWrites

C27_Witness ==
    \E c \in Calls :
        /\ calls[c].pc = "returned"
        /\ calls[c].op.name = "put_user_address"
        /\ calls[c].ret.tag = "Ok"
        /\ calls[c].log = <<"prefetch", "prefetch", "enforcer_ok", "update">>

\* The requirements registered for a (method, path): those inserted, under
\* the method, with a pattern the path matches.
Registered(policy, method, path) ==
    {policy.route_matchers[method][p] :
        p \in {q \in (IF method \in DOMAIN policy.route_matchers
                      THEN DOMAIN policy.route_matchers[method] ELSE {}) :
                  Matches(q, path)}}

ExplicitlyPublic(policy, method, path) ==
    /\ method \in DOMAIN policy.public_matchers
    /\ \E p \in policy.public_matchers[method] : Matches(p, path)

\* The policy with the matchers of one method only.
OnlyMethod(policy, method) ==
    [route_matchers |->
         [m \in DOMAIN policy.route_matchers \cap {method} |->
             policy.route_matchers[m]],
     public_matchers |->
         [m \in DOMAIN policy.public_matchers \cap {method} |->
             policy.public_matchers[m]],
     require_auth_by_default |-> policy.require_auth_by_default]

\* C28: resolve returns None exactly when no requirement is registered for
\* the (method, path) and the route is explicitly public or
\* require_auth_by_default is false; otherwise it returns Required with the
\* registered requirement, or Required(None) when there is none; and the
\* result for a method does not depend on the routes of the other methods.
C28_ResolveAuthRequirement ==
    \A c \in Calls :
        calls[c].pc = "resolved" =>
            LET policy == calls[c].policy
                method == calls[c].method
                path == calls[c].path
                registered == Registered(policy, method, path)
            IN  /\ calls[c].auth = AuthRequirement_None
                      <=> /\ registered = {}
                          /\ \/ ExplicitlyPublic(policy, method, path)
                             \/ ~policy.require_auth_by_default
                /\ calls[c].auth # AuthRequirement_None =>
                      /\ calls[c].auth.tag = "Required"
                      /\ registered = {} => calls[c].auth.requirement = NoRequirement
                      /\ registered # {} => calls[c].auth.requirement \in registered
                /\ calls[c].auth =
                      GatewayRoutePolicy_resolve(OnlyMethod(policy, method), method, path)

C28_Witness ==
    \E c \in Calls :
        /\ calls[c].pc = "resolved"
        /\ calls[c].method = "GET"
        /\ calls[c].path = <<"users", "42">>
        /\ calls[c].policy.require_auth_by_default
        /\ ExplicitlyPublic(calls[c].policy, "GET", calls[c].path)
        /\ Registered(calls[c].policy, "GET", calls[c].path) = {}
        /\ Registered(calls[c].policy, "POST", calls[c].path) # {}
        /\ calls[c].auth = AuthRequirement_None

\* C29: a ScopeConstraint without filters is trivially satisfied: the
\* condition built for a scope that is not unconstrained and holds such a
\* constraint, alone or beside others, accepts every row.
C29_EmptyConstraintAcceptsAll ==
    (/\ pc = "translated"
     /\ ~is_unconstrained(scope)
     /\ \E c \in 1..Len(scope.constraints) :
            ScopeConstraint_is_empty(scope.constraints[c]))
        => \A row \in Rows : EvalCondition(cond, row)

C29_Witness ==
    /\ pc = "translated"
    /\ ~is_unconstrained(scope)
    /\ Len(scope.constraints) = 2
    /\ ScopeConstraint_is_empty(scope.constraints[2])
    /\ scope.constraints[1] = ScopeConstraint_new(
                                  <<ScopeFilter_new(OWNER_TENANT_ID, "In", <<1>>)>>)
    /\ entity = UsersEntity
    /\ cond.kind = "any"
    /\ \A row \in Rows : EvalCondition(cond, row)

\* C30: an AccessScope is in exactly one of three states, allow-all,
\* deny-all or constrained (not unconstrained, at least one constraint);
\* is_deny_all and is_unconstrained are never both true; every constructor
\* but allow_all() gives a scope that is not unconstrained, and allow_all()
\* gives one without constraints.
C30_ThreeStates ==
    Constructed =>
        LET constrained == ~is_unconstrained(scope) /\ Len(scope.constraints) >= 1
            states == <<is_unconstrained(scope), is_deny_all(scope), constrained>>
        IN  /\ Cardinality({k \in 1..3 : states[k]}) = 1
            /\ ~(is_deny_all(scope) /\ is_unconstrained(scope))
            /\ ctor # "allow_all" => ~is_unconstrained(scope)
            /\ ctor = "allow_all" =>
                  (is_unconstrained(scope) /\ scope.constraints = <<>>)

C30_Witness ==
    /\ pc = "constructed"
    /\ ctor = "from_constraints"
    /\ Len(scope.constraints) = 2
    /\ ~is_unconstrained(scope)
    /\ ~is_deny_all(scope)

====
